---- MODULE Spec2Model ----
(***************************************************************************)
(* HaMqttConfigBuilder (src/src/HaMqttConfigBuilder.h): an incremental     *)
(* JSON object builder over one text buffer, with a depth-indexed array of *)
(* first-field flags and a cached "device" block.                          *)
(*                                                                         *)
(* Text is a sequence of characters; a character is a one-character string *)
(* (the backspace character, which TLA+ cannot write, is the token "<b>"). *)
(* The builder's member functions are operators from a builder record to   *)
(* the builder record they leave; the actions apply them to the variables. *)
(* add with a float is the exception: dtostrf writes into a 32-byte buffer *)
(* unchecked, so the operator gives the set of outcomes a call can have.   *)
(* A call that writes past it leaves the program without defined          *)
(* behaviour: the process is dead, or it goes on with memory of any        *)
(* content.  The specifications call add with floats whose text fits.      *)
(***************************************************************************)
EXTENDS Integers, Sequences, FiniteSets, TLC

VARIABLES
  payload,       \* String payload_
  depth,         \* uint8_t depth_
  maxDepth,      \* const uint8_t maxDepth_
  first,         \* bool first_[kStaticMaxDepth + 1]
  deviceSet,     \* bool deviceSet_
  deviceEndPos,  \* size_t deviceEndPos_
  reqDepth,      \* the maxDepth argument the constructor was called with
  ret,           \* the text generate() returned, while the caller holds it
  lastOp,        \* the member function the caller called last
  text,          \* the string handed to escapeAndAppend
  result,        \* the caller's String that getString writes to
  found,         \* what the caller's last getString call returned
  roundsUp,      \* the floats on a rounding tie that the build's dtostrf
                 \* rounds away from zero
  pc             \* the process: "run"; "undefined" once a call has written
                 \* past buf and returned; "crash" once a call has killed it

prog == <<payload, depth, maxDepth, first, deviceSet, deviceEndPos>>
vars == <<payload, depth, maxDepth, first, deviceSet, deviceEndPos, reqDepth, ret, lastOp,
          text, result, found, roundsUp, pc>>

(***************************************************************************)
(* Bounds of the model.                                                    *)
(***************************************************************************)
\* Most fields (colons) a buffer of the main specification holds.
MaxFields == 3
\* Most fields a buffer of the plain (no device) specification holds.
MaxPlain == 4
\* Most fields a buffer of the nesting specification holds.
MaxNest == 7
\* Most fields a buffer of the rewind specification holds.
MaxRewind == 4
\* Longest string the escape specification hands to escapeAndAppend.
MaxEscLen == 3
\* Most fields a buffer of the lookup specification holds.
MaxLookup == 3
\* Most fields a buffer of the float specification holds.
MaxFloat == 2

(***************************************************************************)
(* Characters and text.                                                    *)
(***************************************************************************)
kStaticMaxDepth == 6

Quote == "\""
Backslash == "\\"
Backspace == "<b>"

\* n times the character c.
Repeat(c, n) == [i \in 1..n |-> c]

\* One decimal digit as a character.
DigitChar(d) == <<"0", "1", "2", "3", "4", "5", "6", "7", "8", "9">>[d + 1]

\* The decimal digits of a natural number, most significant first.
RECURSIVE NatText(_)
NatText(n) == IF n < 10 THEN <<DigitChar(n)>>
              ELSE NatText(n \div 10) \o <<DigitChar(n % 10)>>

\* String::concat(long): the decimal text of a signed integer.
LongText(n) == IF n < 0 THEN <<"-">> \o NatText(0 - n) ELSE NatText(n)

\* num / den rounded to a whole number; a tie up when `up`, else down.
Round(num, den, up) ==
  LET low == num \div den
      rem == num % den
  IN  IF 2 * rem > den \/ (2 * rem = den /\ up) THEN low + 1 ELSE low

\* The magnitude of a float given in quarters (q / 4).
Mag(q) == IF q < 0 THEN 0 - q ELSE q

\* The float lies halfway between two texts of `dec` fractional digits.
\* dtostrf is not part of the header: which of the two it writes differs
\* between builds, and on one build between values.
IsTie(q, dec) ==
  \/ dec = 0 /\ Mag(q) % 4 = 2
  \/ dec = 1 /\ Mag(q) % 2 = 1

\* dtostrf(val, 0, decimals, buf): fixed-point text of a float with `dec`
\* fractional digits, a tie rounded away from zero when `up`.  A float is
\* given exactly, in quarters: two fractional digits hold it, the rest are
\* zeros.
FloatText(q, dec, up) ==
  LET mag  == Mag(q)
      sign == IF q < 0 THEN <<"-">> ELSE <<>>
      n0   == Round(mag, 4, up)
      n1   == Round(mag * 10, 4, up)
      hund == mag * 25
  IN  IF dec = 0 THEN sign \o NatText(n0)
      ELSE IF dec = 1
        THEN sign \o NatText(n1 \div 10) \o <<".", DigitChar(n1 % 10)>>
      ELSE sign \o NatText(hund \div 100)
             \o <<".", DigitChar((hund \div 10) % 10), DigitChar(hund % 10)>>
             \o Repeat("0", dec - 2)

\* Significant digits a double holds through dtostrf's arithmetic.
DoubleDigits == 15

\* dtostrf writes the digits of the value itself: the value is below 10, or
\* its text has no more digits than a double holds.  Elsewhere a dtostrf
\* that computes in binary floating point writes digits of its own
\* (99.5 with 14 decimals as 99.49999999999999).
Settled(q, dec) ==
  \/ Mag(q) < 40
  \/ Len(NatText(Mag(q) \div 4)) + dec <= DoubleDigits

FloatChars == {"0", "1", "2", "3", "4", "5", "6", "7", "8", "9"}

\* t has the shape of a fixed-point text with `dec` fractional digits.
IsFixedPoint(t, neg, dec) ==
  LET from == IF neg THEN 2 ELSE 1
      dot  == IF dec > 0 THEN Len(t) - dec ELSE 0
  IN  /\ neg => t[1] = "-"
      /\ dot > 0 => (dot > from /\ t[dot] = ".")
      /\ dot = 0 => Len(t) >= from
      /\ \A i \in from..Len(t) : i # dot => t[i] \in FloatChars

\* The fixed-point texts of one length.
FixedPoints(n, neg, dec) ==
  {t \in [1..n -> FloatChars \cup {".", "-"}] : IsFixedPoint(t, neg, dec)}

\* The texts dtostrf may write for the float: the one FloatText gives where
\* the digits are settled, elsewhere any fixed-point text of the length of
\* that one or one longer.
DtostrfTexts(q, dec, up) ==
  IF Settled(q, dec) THEN {FloatText(q, dec, up)}
  ELSE FixedPoints(Len(FloatText(q, dec, up)), q < 0, dec)
         \cup FixedPoints(Len(FloatText(q, dec, up)) + 1, q < 0, dec)

\* char buf[32] of add(key, float, decimals).
BufSize == 32

\* The text t and its terminating NUL do not fit in buf.
Overflows(t) == Len(t) + 1 > BufSize

\* F("true") / F("false").
BoolText(v) == IF v THEN <<"t", "r", "u", "e">> ELSE <<"f", "a", "l", "s", "e">>

\* Mutant: the switch without its backslash case.
EscapeCharNoBackslash(c) ==
  CASE c = Quote     -> <<Backslash, Quote>>
    [] c = Backspace -> <<Backslash, "b">>
    [] c = "\f"      -> <<Backslash, "f">>
    [] c = "\n"      -> <<Backslash, "n">>
    [] c = "\r"      -> <<Backslash, "r">>
    [] c = "\t"      -> <<Backslash, "t">>
    [] OTHER         -> <<c>>

\* escapeAndAppend's switch: what one input character appends.
EscapeChar(c) ==
  CASE c = Quote     -> <<Backslash, Quote>>
    [] c = Backslash -> <<Backslash, Backslash>>
    [] c = Backspace -> <<Backslash, "b">>
    [] c = "\f"      -> <<Backslash, "f">>
    [] c = "\n"      -> <<Backslash, "n">>
    [] c = "\r"      -> <<Backslash, "r">>
    [] c = "\t"      -> <<Backslash, "t">>
    [] OTHER         -> <<c>>

\* escapeAndAppend(s): the text appended for the whole of s.
RECURSIVE EscapeText(_)
EscapeText(s) == IF s = <<>> THEN <<>>
                 ELSE EscapeChar(Head(s)) \o EscapeText(Tail(s))

escapeAndAppend(b, s) == [b EXCEPT !.payload = @ \o EscapeText(s)]

\* String::remove(index): drops everything from index (0-based) on.
Remove(s, index) == IF index >= Len(s) THEN s ELSE SubSeq(s, 1, index)

(***************************************************************************)
(* The builder.                                                            *)
(***************************************************************************)
DeviceKey == <<"d", "e", "v", "i", "c", "e">>

AllFirst == [d \in 0..kStaticMaxDepth |-> TRUE]

\* Mutant: the constructor without the clamp.
ClampDepthNone(arg) == arg

\* The constructor's initialiser list: the depth ceiling.
ClampDepth(arg) == IF arg > kStaticMaxDepth THEN kStaticMaxDepth ELSE arg

\* The constructor.
Construct(arg) ==
  [payload |-> <<"{">>, depth |-> 0, maxDepth |-> ClampDepth(arg),
   first |-> AllFirst, deviceSet |-> FALSE, deviceEndPos |-> 0]

\* Mutant: clear that forgets the device cache.
clearKeepsDevice(b) ==
  [b EXCEPT !.payload = <<"{">>, !.depth = 0, !.first = AllFirst]

clear(b) ==
  [b EXCEPT !.payload = <<"{">>, !.depth = 0, !.first = AllFirst,
            !.deviceSet = FALSE, !.deviceEndPos = 0]

beginField(b, key) ==
  LET b1 == IF ~b.first[b.depth]
            THEN [b EXCEPT !.payload = @ \o <<",">>]
            ELSE [b EXCEPT !.first[b.depth] = FALSE]
      b2 == [b1 EXCEPT !.payload = @ \o <<Quote>>]
      b3 == escapeAndAppend(b2, key)
  IN  [b3 EXCEPT !.payload = @ \o <<Quote, ":", Quote>>]

addString(b, key, val) ==
  LET b1 == beginField(b, key)
      b2 == [b1 EXCEPT !.payload = @ \o <<Quote>>]
      b3 == escapeAndAppend(b2, val)
  IN  [b3 EXCEPT !.payload = @ \o <<Quote>>]

addLong(b, key, val) ==
  [beginField(b, key) EXCEPT !.payload = @ \o LongText(val)]

\* Every value the members of a builder can hold (a bool byte that is not
\* 0 reads as true).
Builders ==
  [payload : Seq(STRING), depth : 0..255, maxDepth : 0..255,
   first : [0..kStaticMaxDepth -> BOOLEAN], deviceSet : BOOLEAN,
   deviceEndPos : Nat]

\* The outcomes of a call whose behaviour is undefined: the call kills the
\* process ("crash") or returns ("undefined"), the members holding any
\* value at all.  The set is not one to enumerate.
Undefined == [end : {"crash", "undefined"}, b : Builders]

\* Lines 58-61 once dtostrf has chosen its text t: the outcomes of the
\* call, each how the call ends and the builder it leaves.  A text that
\* fits in buf is appended and the call returns; with a text that does not
\* fit dtostrf writes past buf and the behaviour is undefined.
addFloatText(b, key, t) ==
  IF Overflows(t) THEN Undefined
  ELSE {[end |-> "return", b |-> [beginField(b, key) EXCEPT !.payload = @ \o t]]}

\* add(key, float, decimals) where the build's dtostrf rounds a tie away
\* from zero when `up`: the outcomes of the call.
addFloat(b, key, q, decimals, up) ==
  UNION {addFloatText(b, key, t) : t \in DtostrfTexts(q, decimals, up)}

addBool(b, key, val) ==
  [beginField(b, key) EXCEPT !.payload = @ \o BoolText(val)]

\* Mutant: beginObject with its guard off by one.
beginObjectOffByOne(b, key) ==
  IF b.depth > b.maxDepth THEN b
  ELSE LET b1 == beginField(b, key)
           d  == (b1.depth + 1) % 256
       IN  [b1 EXCEPT !.payload = @ \o <<"{">>, !.depth = d, !.first[d] = TRUE]

beginObject(b, key) ==
  IF b.depth >= b.maxDepth THEN b
  ELSE LET b1 == beginField(b, key)
           d  == (b1.depth + 1) % 256
       IN  [b1 EXCEPT !.payload = @ \o <<"{">>, !.depth = d, !.first[d] = TRUE]

\* Mutant: endObject that forgets to leave the level.
endObjectKeepsDepth(b) ==
  IF b.depth = 0 THEN b
  ELSE [b EXCEPT !.payload = @ \o <<"}">>]

\* Mutant: endObject without its depth guard.
endObjectUnguarded(b) ==
  [b EXCEPT !.payload = @ \o <<"}">>, !.depth = (b.depth - 1) % 256]

endObject(b) ==
  IF b.depth = 0 THEN b
  ELSE [b EXCEPT !.payload = @ \o <<"}">>, !.depth = (b.depth - 1) % 256]

beginDevice(b) ==
  IF b.deviceSet THEN b ELSE beginObject(b, DeviceKey)

\* Mutant: endDevice without its already-finished guard.
endDeviceUnguarded(b) ==
  LET b1 == endObject(b)
  IN  [b1 EXCEPT !.deviceSet = TRUE, !.deviceEndPos = Len(b1.payload),
                 !.first[0] = FALSE]

endDevice(b) ==
  IF b.deviceSet THEN b
  ELSE LET b1 == endObject(b)
       IN  [b1 EXCEPT !.deviceSet = TRUE, !.deviceEndPos = Len(b1.payload),
                      !.first[0] = FALSE]

\* Mutant: nextSensor that cuts one byte too many.
nextSensorOffByOne(b) ==
  IF ~b.deviceSet THEN b
  ELSE [b EXCEPT !.payload = Remove(@, b.deviceEndPos - 1), !.depth = 0,
                 !.first[0] = FALSE]

\* Mutant: nextSensor without its no-device guard.
nextSensorUnguarded(b) ==
  [b EXCEPT !.payload = Remove(@, b.deviceEndPos), !.depth = 0,
            !.first[0] = FALSE]

\* Mutant: nextSensor that leaves one level instead of going to the root.
nextSensorPopsOne(b) ==
  IF ~b.deviceSet THEN b
  ELSE [b EXCEPT !.payload = Remove(@, b.deviceEndPos),
                 !.depth = IF b.depth > 0 THEN b.depth - 1 ELSE 0,
                 !.first[0] = FALSE]

\* Mutant: nextSensor that does not go back to the root level.
nextSensorKeepsDepth(b) ==
  IF ~b.deviceSet THEN b
  ELSE [b EXCEPT !.payload = Remove(@, b.deviceEndPos), !.first[0] = FALSE]

nextSensor(b) ==
  IF ~b.deviceSet THEN b
  ELSE [b EXCEPT !.payload = Remove(@, b.deviceEndPos), !.depth = 0,
                 !.first[0] = FALSE]

\* Mutant: generate whose loop stops one level early.
generateOneShort(b) == b.payload \o Repeat("}", b.depth)

\* generate(): the loop runs for d = depth_ down to 0.
generate(b) == b.payload \o Repeat("}", b.depth + 1)

\* String::indexOf(String, fromIndex): the first 0-based index at or
\* after `from` where needle occurs in s, or -1.
IndexOfText(s, needle, from) ==
  LET hits == {i \in from..(Len(s) - Len(needle)) :
                 SubSeq(s, i + 1, i + Len(needle)) = needle}
  IN  IF from >= Len(s) \/ hits = {} THEN -1
      ELSE CHOOSE i \in hits : \A j \in hits : i <= j

\* String::indexOf(char, fromIndex).
IndexOfChar(s, c, from) == IndexOfText(s, <<c>>, from)

\* isspace(c); the vertical tab, which TLA+ cannot write, is the token "<v>".
IsSpace(c) == c \in {" ", "\t", "\n", "<v>", "\f", "\r"}

\* getString's first loop: skips white space from 0-based pos on.
RECURSIVE SkipSpace(_, _)
SkipSpace(json, pos) ==
  IF pos < Len(json) /\ IsSpace(json[pos + 1]) THEN SkipSpace(json, pos + 1)
  ELSE pos

\* getString's second loop: from 0-based end on, the first quote that no
\* backslash precedes, or the length.
RECURSIVE ScanEnd(_, _)
ScanEnd(json, end) ==
  IF end < Len(json) /\ (json[end + 1] # Quote \/ json[end] = Backslash)
  THEN ScanEnd(json, end + 1)
  ELSE end

\* getString's scan of the generated text: whether it succeeds, and the
\* substring it takes.
ScanString(json, key) ==
  LET needle == <<Quote>> \o key \o <<Quote>>
      fail   == [ok |-> FALSE, value |-> <<>>]
      p0     == IndexOfText(json, needle, 0)
      p1     == IndexOfChar(json, ":", p0 + Len(needle))
      p2     == SkipSpace(json, p1 + 1)
      p3     == p2 + 1
      end    == ScanEnd(json, p3)
  IN  IF p0 < 0 THEN fail
      ELSE IF p1 < 0 THEN fail
      ELSE IF p2 >= Len(json) \/ json[p2 + 1] # Quote THEN fail
      ELSE IF end >= Len(json) THEN fail
      ELSE [ok |-> TRUE, value |-> SubSeq(json, p3 + 1, end)]

\* Mutant: getString that assigns its output on every path.
getStringAlwaysAssigns(b, key, out) ==
  LET r == ScanString(generate(b), key)
  IN  [ok |-> r.ok, result |-> r.value]

\* getString(key, result): the value returned and the caller's String after
\* the call (out before it).
getString(b, key, out) ==
  LET r == ScanString(generate(b), key)
  IN  [ok |-> r.ok, result |-> IF r.ok THEN r.value ELSE out]

(***************************************************************************)
(* The state machine: a caller issuing member-function calls.              *)
(***************************************************************************)
\* The builder as it stands.
Self ==
  [payload |-> payload, depth |-> depth, maxDepth |-> maxDepth, first |-> first,
   deviceSet |-> deviceSet, deviceEndPos |-> deviceEndPos]

\* The call `op` returns and leaves the builder as nb.
Returns(nb, op) ==
  /\ payload' = nb.payload
  /\ depth' = nb.depth
  /\ maxDepth' = nb.maxDepth
  /\ first' = nb.first
  /\ deviceSet' = nb.deviceSet
  /\ deviceEndPos' = nb.deviceEndPos
  /\ lastOp' = op
  /\ UNCHANGED <<reqDepth, text, result, found, roundsUp, pc>>

\* The call `op` has undefined behaviour: it kills the process or returns,
\* and the memory of the process (the builder's members and the caller's
\* Strings and flag alike) holds any value at all.
Wild(op) ==
  /\ [end |-> pc', b |-> Self'] \in Undefined
  /\ ret' \in Seq(STRING)
  /\ text' \in Seq(STRING)
  /\ result' \in Seq(STRING)
  /\ found' \in BOOLEAN
  /\ lastOp' = op
  /\ UNCHANGED <<reqDepth, roundsUp>>

\* A call of a mutating member function `op` that leaves the builder as nb.
\* A process a call has killed calls nothing; in a process that went on
\* after undefined behaviour every call is undefined.
Call(nb, op) ==
  IF pc = "run" THEN Returns(nb, op) ELSE pc = "undefined" /\ Wild(op)

\* The inputs the caller of the main specification draws from.
Keys == {<<"a">>}
Strings == {<<"x">>}
Longs == {7}
Floats == {[q |-> 6, dec |-> 1]}
Bools == {TRUE}
DepthArgs == {0, 1, 2, 255}

NumFields(p) == Cardinality({i \in 1..Len(p) : p[i] = ":"})

\* The constructor, called with one of the given maxDepth arguments.
InitBuilder(args) ==
  /\ reqDepth \in args
  /\ payload = Construct(reqDepth).payload
  /\ depth = Construct(reqDepth).depth
  /\ maxDepth = Construct(reqDepth).maxDepth
  /\ first = Construct(reqDepth).first
  /\ deviceSet = Construct(reqDepth).deviceSet
  /\ deviceEndPos = Construct(reqDepth).deviceEndPos
  /\ ret = <<>>
  /\ lastOp = "new"
  /\ pc = "run"

\* The floats among fs that lie on a rounding tie.
TieArgs(fs) == {f \in fs : IsTie(f.q, f.dec)}

\* The build's dtostrf, as far as the floats fs show it.
InitDtostrf(fs) == roundsUp \in SUBSET TieArgs(fs)

InitWith(args) ==
  /\ InitBuilder(args)
  /\ InitDtostrf(Floats)
  /\ text = <<>>
  /\ result = <<>>
  /\ found = FALSE

Init == InitWith(DepthArgs)

Clear == Call(clear(Self), "clear")
AddString(k, v) == Call(addString(Self, k, v), "addString")
AddLong(k, v) == Call(addLong(Self, k, v), "addLong")
\* add with a float: dtostrf chooses its text; a text that fits in buf is
\* appended, with one that does not the call is undefined.
AddFloat(k, f) ==
  IF pc = "run"
  THEN \E t \in DtostrfTexts(f.q, f.dec, f \in roundsUp) :
         IF Overflows(t) THEN Wild("addFloat")
         ELSE \E o \in addFloatText(Self, k, t) : Returns(o.b, "addFloat")
  ELSE pc = "undefined" /\ Wild("addFloat")
AddBool(k, v) == Call(addBool(Self, k, v), "addBool")
BeginObject(k) == Call(beginObject(Self, k), "beginObject")
EndObject == Call(endObject(Self), "endObject")
BeginDevice == Call(beginDevice(Self), "beginDevice")
EndDevice == Call(endDevice(Self), "endDevice")
NextSensor == Call(nextSensor(Self), "nextSensor")

\* generate() is const: it returns text and leaves the builder alone.
Generate ==
  IF pc = "run"
  THEN /\ ret' = generate(Self)
       /\ lastOp' = "generate"
       /\ UNCHANGED <<payload, depth, maxDepth, first, deviceSet, deviceEndPos, reqDepth>>
       /\ UNCHANGED <<text, result, found, roundsUp, pc>>
  ELSE pc = "undefined" /\ Wild("generate")

\* What the caller does with the text generate() returned once it calls on:
\* drop it, or hold on to it (where the call it makes is a defined one).
Discard == IF pc' = "run" THEN ret' = <<>> ELSE TRUE
Hold == IF pc' = "run" THEN ret' = ret ELSE TRUE

\* The buffer the call leaves holds at most n fields.
Within(n) == pc' = "run" => NumFields(payload') <= n

\* The caller's next call, drawn from the given inputs, while the buffer holds
\* at most maxFields fields.
NextOver(keys, strings, longs, floats, bools, maxFields) ==
  \/ Clear /\ Discard
  \/ \E k \in keys, v \in strings : AddString(k, v) /\ Discard /\ Within(maxFields)
  \/ \E k \in keys, v \in longs : AddLong(k, v) /\ Discard /\ Within(maxFields)
  \/ \E k \in keys, f \in floats : AddFloat(k, f) /\ Discard /\ Within(maxFields)
  \/ \E k \in keys, v \in bools : AddBool(k, v) /\ Discard /\ Within(maxFields)
  \/ \E k \in keys : BeginObject(k) /\ Discard /\ Within(maxFields)
  \/ EndObject /\ Discard
  \/ BeginDevice /\ Discard /\ Within(maxFields)
  \/ EndDevice /\ Discard
  \/ NextSensor /\ Discard
  \/ Generate

Next == NextOver(Keys, Strings, Longs, Floats, Bools, MaxFields)

Spec == Init /\ [][Next]_vars

(***************************************************************************)
(* The plain specification: a fresh or cleared builder on which only the   *)
(* scalar appends, beginObject and endObject are called.                   *)
(***************************************************************************)
PlainArgs == {0, 1, 2, 4}

InitPlain == InitWith(PlainArgs)

NextPlain ==
  \/ Clear /\ Discard
  \/ \E k \in Keys, v \in Strings : AddString(k, v) /\ Discard /\ Within(MaxPlain)
  \/ \E k \in Keys, v \in Longs : AddLong(k, v) /\ Discard /\ Within(MaxPlain)
  \/ \E k \in Keys, f \in Floats : AddFloat(k, f) /\ Discard /\ Within(MaxPlain)
  \/ \E k \in Keys, v \in Bools : AddBool(k, v) /\ Discard /\ Within(MaxPlain)
  \/ \E k \in Keys : BeginObject(k) /\ Discard /\ Within(MaxPlain)
  \/ EndObject /\ Discard
  \/ Generate

SpecPlain == InitPlain /\ [][NextPlain]_vars

(***************************************************************************)
(* The nesting specification: objects opened down to the compile-time      *)
(* limit, for constructor arguments below, at and above it.                *)
(***************************************************************************)
NestArgs == {0, 1, 5, 6, 7, 255}

InitNest == InitWith(NestArgs)

NextNest ==
  \/ \E k \in Keys, v \in Longs : AddLong(k, v) /\ Discard /\ Within(MaxNest)
  \/ \E k \in Keys : BeginObject(k) /\ Discard /\ Within(MaxNest)
  \/ EndObject /\ Discard

SpecNest == InitNest /\ [][NextNest]_vars

(***************************************************************************)
(* The rewind specification: the documented use of the device cache.  On a *)
(* fresh builder the caller opens the device block, appends scalars to it, *)
(* commits it and takes the generated text; then, any number of times, it  *)
(* appends sensor fields and objects, calls nextSensor() and takes the     *)
(* generated text again.  The caller holds the last text it took.          *)
(***************************************************************************)
ScalarOps == {"addString", "addLong", "addFloat", "addBool"}

RewindArgs == {0, 1, 4}

InitRewind == InitWith(RewindArgs)

\* A scalar append.
AddScalar ==
  \/ \E k \in Keys, v \in Strings : AddString(k, v)
  \/ \E k \in Keys, v \in Longs : AddLong(k, v)
  \/ \E k \in Keys, f \in Floats : AddFloat(k, f)
  \/ \E k \in Keys, v \in Bools : AddBool(k, v)

NextRewind ==
  \/ lastOp = "new" /\ BeginDevice /\ Hold
  \/ ~deviceSet /\ lastOp # "new" /\ AddScalar /\ Hold /\ Within(MaxRewind - 1)
  \/ ~deviceSet /\ lastOp # "new" /\ EndDevice /\ Hold
  \/ lastOp \in {"endDevice", "nextSensor"} /\ Generate
  \/ deviceSet /\ lastOp \notin {"endDevice", "nextSensor"}
       /\ AddScalar /\ Hold /\ Within(MaxRewind)
  \/ deviceSet /\ lastOp \notin {"endDevice", "nextSensor"}
       /\ (\E k \in Keys : BeginObject(k)) /\ Hold /\ Within(MaxRewind)
  \/ deviceSet /\ lastOp \notin {"endDevice", "nextSensor"} /\ EndObject /\ Hold
  \/ deviceSet /\ lastOp \notin {"endDevice", "nextSensor"} /\ NextSensor /\ Hold

SpecRewind == InitRewind /\ [][NextRewind]_vars

(***************************************************************************)
(* The escape specification: escapeAndAppend applied once, on a fresh      *)
(* builder, to every string of at most MaxEscLen characters over the       *)
(* characters it treats specially and some it does not.                    *)
(***************************************************************************)
EscAlphabet ==
  {Quote, Backslash, Backspace, "\f", "\n", "\r", "\t", "a", "b", "n"}

EscStrings == UNION {[1..m -> EscAlphabet] : m \in 0..MaxEscLen}

InitEscape ==
  /\ InitBuilder({4})
  /\ InitDtostrf({})
  /\ text \in EscStrings
  /\ result = <<>>
  /\ found = FALSE

EscapeAndAppend ==
  /\ pc = "run"
  /\ lastOp = "new"
  /\ payload' = escapeAndAppend(Self, text).payload
  /\ lastOp' = "escapeAndAppend"
  /\ UNCHANGED <<depth, maxDepth, first, deviceSet, deviceEndPos, reqDepth, ret>>
  /\ UNCHANGED <<text, result, found, roundsUp, pc>>

NextEscape == EscapeAndAppend

SpecEscape == InitEscape /\ [][NextEscape]_vars

(***************************************************************************)
(* The float specification: add with floats on and off a rounding tie,     *)
(* positive and negative, with few decimals and with so many that the text *)
(* fills buf, then the calls a caller goes on with.                        *)
(***************************************************************************)
\* 0.25 with 1 decimal and 1.5 with none lie on a tie; 1.5 with 29 decimals
\* and -1.5 with 28 fill buf.
FloatArgs ==
  {[q |-> 1, dec |-> 1], [q |-> 6, dec |-> 0], [q |-> 6, dec |-> 2],
   [q |-> -9, dec |-> 1], [q |-> 6, dec |-> 29], [q |-> -6, dec |-> 28]}

InitFloat ==
  /\ InitBuilder({4})
  /\ InitDtostrf(FloatArgs)
  /\ text = <<>>
  /\ result = <<>>
  /\ found = FALSE

NextFloat ==
  \/ \E k \in Keys, f \in FloatArgs : AddFloat(k, f) /\ Discard /\ Within(MaxFloat)
  \/ \E k \in Keys, v \in Longs : AddLong(k, v) /\ Discard /\ Within(MaxFloat)
  \/ \E k \in Keys : BeginObject(k) /\ Discard /\ Within(MaxFloat)
  \/ EndObject /\ Discard
  \/ Generate

SpecFloat == InitFloat /\ [][NextFloat]_vars

(***************************************************************************)
(* The lookup specification: the caller writes fields with distinct keys,  *)
(* each key with its own kind of value, opens and closes objects, and      *)
(* looks keys up with getString, among them a key it never writes.  No key *)
(* or value needs escaping and none occurs inside another.                 *)
(***************************************************************************)
StringFields == {[key |-> <<"n">>, val |-> <<"T">>], [key |-> <<"u">>, val |-> <<"C">>]}
LongFields == {[key |-> <<"i">>, val |-> 7]}
FloatFields == {[key |-> <<"h">>, val |-> [q |-> 6, dec |-> 1]]}
BoolFields == {[key |-> <<"b">>, val |-> FALSE]}
ObjectKeys == {<<"o">>}
MissingKeys == {<<"m">>}

StringKeys == {f.key : f \in StringFields}
NonStringKeys ==
  {f.key : f \in LongFields} \cup {f.key : f \in FloatFields}
    \cup {f.key : f \in BoolFields} \cup ObjectKeys
LookupKeys == StringKeys \cup NonStringKeys \cup MissingKeys

\* The caller's String before its first getString call.
OutBefore == <<"z">>

\* getString's needle: the key in quotes.
Needle(k) == <<Quote>> \o k \o <<Quote>>

\* No field with key k was written to the buffer.
Absent(k) == IndexOfText(payload, Needle(k), 0) < 0

InitLookup ==
  /\ InitBuilder({1, 4})
  /\ InitDtostrf({f.val : f \in FloatFields})
  /\ text = <<>>
  /\ result = OutBefore
  /\ found = FALSE

\* getString is const: it sets the caller's String, or leaves it, and
\* returns.
GetString(k) ==
  IF pc = "run"
  THEN /\ found' = getString(Self, k, result).ok
       /\ result' = getString(Self, k, result).result
       /\ lastOp' = "getString"
       /\ UNCHANGED <<payload, depth, maxDepth, first, deviceSet, deviceEndPos, reqDepth>>
       /\ UNCHANGED <<ret, text, roundsUp, pc>>
  ELSE pc = "undefined" /\ Wild("getString")

NextLookup ==
  \/ \E f \in StringFields :
       Absent(f.key) /\ AddString(f.key, f.val) /\ Discard /\ Within(MaxLookup)
  \/ \E f \in LongFields :
       Absent(f.key) /\ AddLong(f.key, f.val) /\ Discard /\ Within(MaxLookup)
  \/ \E f \in FloatFields :
       Absent(f.key) /\ AddFloat(f.key, f.val) /\ Discard /\ Within(MaxLookup)
  \/ \E f \in BoolFields :
       Absent(f.key) /\ AddBool(f.key, f.val) /\ Discard /\ Within(MaxLookup)
  \/ \E k \in ObjectKeys :
       Absent(k) /\ BeginObject(k) /\ Discard /\ Within(MaxLookup)
  \/ EndObject /\ Discard
  \/ \E k \in LookupKeys : GetString(k)

SpecLookup == InitLookup /\ [][NextLookup]_vars

(***************************************************************************)
(* Text measures the properties use.  No key or value the caller draws     *)
(* holds a brace, a comma or a colon, so every such character in a buffer  *)
(* is one the builder wrote as structure.                                  *)
(***************************************************************************)
Count(t, c) == Cardinality({i \in 1..Len(t) : t[i] = c})

\* Objects opened and not closed in text t.
OpenObjects(t) == Count(t, "{") - Count(t, "}")

\* No prefix of t closes more objects than it has opened, and none is left open.
Balanced(t) ==
  /\ \A n \in 1..Len(t) : OpenObjects(SubSeq(t, 1, n)) >= 0
  /\ OpenObjects(t) = 0

\* The fragment a scalar append with key k and value text v is to append to b.
ScalarFragment(b, k, v) ==
  (IF b.first[b.depth] THEN <<>> ELSE <<",">>)
    \o <<Quote>> \o EscapeText(k) \o <<Quote, ":">> \o v

\* The committed device prefix: the buffer's bytes [0, deviceEndPos_).
DevicePrefix == SubSeq(payload, 1, deviceEndPos)

(***************************************************************************)
(* C1.  Every scalar append with key k appends exactly: a comma iff a      *)
(* field was already emitted at the current level, the escaped key in one  *)
(* pair of quotes, a colon, then the value; a string value escaped and in  *)
(* exactly one pair of quotes, a long, float or bool value as bare literal *)
(* text with no quote between the colon and the value.                     *)
(* The code's beginField ends the key with quote, colon, quote: a stray    *)
(* quote follows the colon in every field.                                 *)
(***************************************************************************)
C1_ScalarAppendFragment ==
  [][/\ \A k \in Keys, v \in Strings : AddString(k, v) =>
          payload' = payload \o
            ScalarFragment(Self, k, <<Quote>> \o EscapeText(v) \o <<Quote>>)
     /\ \A k \in Keys, v \in Longs : AddLong(k, v) =>
          payload' = payload \o ScalarFragment(Self, k, LongText(v))
     /\ \A k \in Keys, f \in Floats : AddFloat(k, f) =>
          payload' = payload \o ScalarFragment(Self, k, FloatText(f.q, f.dec, f \in roundsUp))
     /\ \A k \in Keys, v \in Bools : AddBool(k, v) =>
          payload' = payload \o ScalarFragment(Self, k, BoolText(v))]_vars

(***************************************************************************)
(* C2.  In every reachable state the buffer begins with an opening brace   *)
(* and holds depth + 1 more opening than closing braces, so that           *)
(* generate() returns text with balanced braces.                           *)
(* nextSensor() sets depth_ to 0 whatever the committed prefix leaves      *)
(* open: after beginObject, beginDevice, endDevice, nextSensor the prefix  *)
(* holds two open objects and depth_ is 0.                                 *)
(***************************************************************************)
C2_BraceBalance ==
  /\ Len(payload) >= 1 /\ payload[1] = "{"
  /\ OpenObjects(payload) = depth + 1
  /\ Balanced(generate(Self))

(***************************************************************************)
(* C3.  Round-trip closure: on a fresh or cleared builder, after any       *)
(* sequence of scalar appends, beginObject and endObject calls, the text   *)
(* generate() returns never closes more objects than it has opened and     *)
(* leaves none open at its end.  (Checked under SpecPlain.)                *)
(***************************************************************************)
C3_RoundTripClosure ==
  /\ Balanced(generate(Self))
  /\ lastOp = "generate" => Balanced(ret)

\* generate() has returned text closing two nested objects and the root.
C3_Witness ==
  /\ lastOp = "generate"
  /\ depth = 2
  /\ NumFields(payload) = 4
  /\ Len(ret) = Len(payload) + 3

(***************************************************************************)
(* C4.  First-field comma invariant: the buffer never holds a comma        *)
(* directly after an opening brace, and never holds a field directly after *)
(* a closed object without a comma between them.                           *)
(* endDevice() clears first_[0] also when no device object was opened:     *)
(* endDevice() then add() on a fresh builder writes a comma first.         *)
(***************************************************************************)
C4_FirstFieldComma ==
  \A i \in 1..(Len(payload) - 1) :
    /\ payload[i] = "{" => payload[i + 1] # ","
    /\ payload[i] = "}" => payload[i + 1] \in {",", "}"}

(***************************************************************************)
(* C5.  Rewind correctness (checked under SpecRewind): after the device    *)
(* block was committed on a fresh builder and any number of scalars and    *)
(* sensor objects were appended, nextSensor() makes generate() return      *)
(* exactly the text it returned right after endDevice(); a field appended  *)
(* to the rewound buffer follows the device block after exactly one comma. *)
(***************************************************************************)
C5_RewindCorrect ==
  [][/\ (lastOp = "nextSensor" /\ lastOp' = "generate") =>
          (ret # <<>> /\ ret' = ret)
     /\ (/\ deviceSet
         /\ Len(payload) = deviceEndPos
         /\ lastOp' \in ScalarOps \cup {"beginObject"}
         /\ payload' # payload) =>
          (/\ Len(payload') >= deviceEndPos + 2
           /\ SubSeq(payload', 1, deviceEndPos + 2)
                = DevicePrefix \o <<",", Quote>>)]_vars

\* nextSensor() has discarded a sensor object appended after a device block
\* that holds a field, while the caller holds the text taken at the commit.
C5_Witness ==
  /\ lastOp = "nextSensor"
  /\ deviceSet
  /\ maxDepth >= 1
  /\ NumFields(DevicePrefix) = 2
  /\ first[1]
  /\ Len(payload) = deviceEndPos
  /\ ret = DevicePrefix \o <<"}">>

(***************************************************************************)
(* C6.  Whenever deviceSet_ is true, the buffer bytes [0, deviceEndPos_)   *)
(* are the root's opening brace followed by a complete "device" field      *)
(* directly under the root: the prefix leaves exactly one object open and  *)
(* ends with the closing brace of an object beginDevice() opened.          *)
(* endDevice() commits whatever it finds: on a fresh builder it sets       *)
(* deviceSet_ with the prefix "{".                                         *)
(***************************************************************************)
C6_DeviceBlockComplete ==
  deviceSet =>
    /\ deviceEndPos <= Len(payload)
    /\ deviceEndPos >= 11
    /\ SubSeq(payload, 1, 10) = <<"{", Quote>> \o DeviceKey \o <<Quote, ":">>
    /\ OpenObjects(DevicePrefix) = 1
    /\ payload[deviceEndPos] = "}"

(***************************************************************************)
(* C7.  Device cache idempotence: once deviceSet_ is true, every           *)
(* beginDevice() and endDevice() call leaves the whole builder unchanged.  *)
(***************************************************************************)
C7_DeviceCacheIdempotent ==
  [][(deviceSet /\ lastOp' \in {"beginDevice", "endDevice"}) =>
       UNCHANGED <<payload, depth, maxDepth, first, deviceSet, deviceEndPos>>]_vars

\* endDevice() was called on a committed builder with a sensor object open.
C7_Witness ==
  /\ deviceSet
  /\ lastOp = "endDevice"
  /\ depth > 0
  /\ Len(payload) > deviceEndPos

(***************************************************************************)
(* C8.  Depth clamp (checked under SpecNest): the ceiling is the smaller   *)
(* of the constructor argument and 6, depth stays in [0, ceiling], and     *)
(* beginObject called at the ceiling leaves buffer, depth and first-flags  *)
(* unchanged.                                                              *)
(***************************************************************************)
C8_DepthClamp ==
  /\ maxDepth \in {reqDepth, 6}
  /\ maxDepth <= reqDepth /\ maxDepth <= 6
  /\ depth \in 0..maxDepth
  /\ depth = maxDepth =>
       \A k \in Keys :
         LET nb == beginObject(Self, k)
         IN  nb.payload = payload /\ nb.depth = depth /\ nb.first = first

\* beginObject was called at depth 6 of a builder constructed with 255, and
\* wrote nothing.
C8_Witness ==
  /\ reqDepth = 255
  /\ depth = 6
  /\ lastOp = "beginObject"
  /\ payload[Len(payload)] # "{"

(***************************************************************************)
(* C9.  clear() restores exactly the post-construction state, clear()      *)
(* twice equals clear() once, and after clear() a beginDevice() /          *)
(* endDevice() pair is not treated as a duplicate.                         *)
(***************************************************************************)
\* beginDevice() took b to nb by opening a "device" object.
OpensDevice(b, nb) ==
  /\ nb.depth = b.depth + 1
  /\ nb.payload[Len(nb.payload)] = "{"
  /\ Len(nb.payload) > Len(b.payload) + 9
  /\ SubSeq(nb.payload, 1, Len(b.payload) + 9)
       = b.payload \o <<Quote>> \o DeviceKey \o <<Quote, ":">>

\* endDevice() took b to nb by committing the block.
Commits(b, nb) ==
  /\ ~b.deviceSet /\ nb.deviceSet
  /\ nb.deviceEndPos = Len(nb.payload)
  /\ nb.depth = 0

\* C9 as stated: after clear(), beginDevice() opens a device object and
\* endDevice() commits it.  With a depth ceiling of 0 beginDevice() opens
\* nothing.
C9_ClearOriginal ==
  lastOp = "clear" =>
    /\ Self = Construct(reqDepth)
    /\ clear(Self) = Self
    /\ OpensDevice(Self, beginDevice(Self))
    /\ Commits(beginDevice(Self), endDevice(beginDevice(Self)))

\* C9 as amended: after clear(), beginDevice() opens a device object when
\* the depth ceiling is at least 1 and changes nothing when it is 0; either
\* way endDevice() then sets deviceSet_ again.
C9_ClearAmended ==
  lastOp = "clear" =>
    /\ Self = Construct(reqDepth)
    /\ clear(Self) = Self
    /\ IF maxDepth >= 1 THEN OpensDevice(Self, beginDevice(Self))
                        ELSE beginDevice(Self) = Self
    /\ Commits(beginDevice(Self), endDevice(beginDevice(Self)))

\* clear() was called on a builder whose depth ceiling is 0.
C9_Witness ==
  /\ lastOp = "clear"
  /\ reqDepth = 0
  /\ payload = <<"{">>

(***************************************************************************)
(* C10.  generate() returns the buffer followed by exactly depth + 1       *)
(* closing braces and changes no builder state; a second generate() call   *)
(* right after returns identical text.                                     *)
(***************************************************************************)
C10_GeneratePure ==
  [][lastOp' = "generate" =>
       /\ Len(ret') = Len(payload) + depth + 1
       /\ SubSeq(ret', 1, Len(payload)) = payload
       /\ \A i \in (Len(payload) + 1)..Len(ret') : ret'[i] = "}"
       /\ UNCHANGED <<payload, depth, maxDepth, first, deviceSet, deviceEndPos>>
       /\ lastOp = "generate" => ret' = ret]_vars

\* generate() has returned a buffer with two objects open, closed three times.
C10_Witness ==
  /\ lastOp = "generate"
  /\ depth = 2
  /\ deviceSet
  /\ ret = payload \o <<"}", "}", "}">>

(***************************************************************************)
(* C11.  Lookup of a present string field (stated for SpecLookup): on a    *)
(* builder whose root holds only string fields with distinct keys, no      *)
(* character needing escaping and no key inside another key or value,      *)
(* getString(k, out) returns true for every added key k and sets out to    *)
(* exactly the value added for k.                                          *)
(* With the stray quote of C1 the buffer reads "n":""T", so the scan ends  *)
(* at the value's own opening quote: getString returns true and sets out   *)
(* to the empty string.                                                    *)
(***************************************************************************)
C11_LookupPresentString ==
  (depth = 0 /\ \A k \in NonStringKeys : Absent(k)) =>
    \A f \in StringFields :
      ~Absent(f.key) =>
        getString(Self, f.key, result) = [ok |-> TRUE, result |-> f.val]

(***************************************************************************)
(* C12.  Lookup failure channel (checked under SpecLookup): whenever       *)
(* getString returns false the caller's String holds what it held before   *)
(* the call, getString never changes the builder, and it returns false     *)
(* when the quoted key does not occur in the generated text.               *)
(***************************************************************************)
C12_LookupFailureChannel ==
  [][\A k \in LookupKeys :
       GetString(k) =>
         /\ UNCHANGED <<payload, depth, maxDepth, first, deviceSet, deviceEndPos>>
         /\ ~found' => result' = result
         /\ IndexOfText(generate(Self), Needle(k), 0) < 0 => ~found']_vars

\* A getString call has failed after an earlier one had succeeded and set
\* the caller's String.
C12_Witness ==
  /\ lastOp = "getString"
  /\ ~found
  /\ result # OutBefore
  /\ NumFields(payload) >= 2

(***************************************************************************)
(* C13.  Non-string values are not retrievable (stated for SpecLookup):    *)
(* for a key written by add with a long, float or bool value or by         *)
(* beginObject, whatever fields follow it, getString returns false and     *)
(* leaves out unchanged.                                                   *)
(* With the stray quote of C1 every value begins with a quote, so the scan *)
(* succeeds as soon as any later quote follows: after add("i", 7) and      *)
(* add("n", "T") getString("i") returns true with out = 7, (the text up to *)
(* the next key's quote).                                                  *)
(***************************************************************************)
C13_NonStringNotRetrievable ==
  \A k \in NonStringKeys :
    ~Absent(k) =>
      getString(Self, k, result) = [ok |-> FALSE, result |-> result]

(***************************************************************************)
(* C14.  Escaping (checked under SpecEscape): escapeAndAppend appends, per *)
(* input character in order, backslash and quote for a quote, two          *)
(* backslashes for a backslash, backslash and b, f, n, r, t for backspace, *)
(* form feed, newline, carriage return and tab, and the character itself   *)
(* otherwise; a standard JSON unescaper takes the appended text back to    *)
(* the input, and the appended text holds no unescaped quote.              *)
(***************************************************************************)
\* The letter that follows the backslash for each character the claim names.
EscapeLetter ==
  (Quote :> Quote) @@ (Backslash :> Backslash) @@ (Backspace :> "b")
    @@ ("\f" :> "f") @@ ("\n" :> "n") @@ ("\r" :> "r") @@ ("\t" :> "t")

\* The text the claim says is appended for input s.
RECURSIVE ClaimedEscape(_)
ClaimedEscape(s) ==
  IF s = <<>> THEN <<>>
  ELSE (IF Head(s) \in DOMAIN EscapeLetter
        THEN <<Backslash, EscapeLetter[Head(s)]>>
        ELSE <<Head(s)>>) \o ClaimedEscape(Tail(s))

\* A standard JSON unescaper: the character an escape letter stands for.
Unletter(c) ==
  CASE c = Quote     -> Quote
    [] c = Backslash -> Backslash
    [] c = "/"       -> "/"
    [] c = "b"       -> Backspace
    [] c = "f"       -> "\f"
    [] c = "n"       -> "\n"
    [] c = "r"       -> "\r"
    [] c = "t"       -> "\t"
    [] OTHER         -> "<invalid>"

RECURSIVE JsonUnescape(_)
JsonUnescape(t) ==
  IF t = <<>> THEN <<>>
  ELSE IF Head(t) # Backslash THEN <<Head(t)>> \o JsonUnescape(Tail(t))
  ELSE IF Len(t) < 2 THEN <<"<invalid>">>
  ELSE <<Unletter(t[2])>> \o JsonUnescape(SubSeq(t, 3, Len(t)))

\* Text t holds no quote outside an escape.
RECURSIVE NoBareQuote(_)
NoBareQuote(t) ==
  IF t = <<>> THEN TRUE
  ELSE IF Head(t) = Quote THEN FALSE
  ELSE IF Head(t) = Backslash
       THEN Len(t) >= 2 /\ NoBareQuote(SubSeq(t, 3, Len(t)))
  ELSE NoBareQuote(Tail(t))

C14_EscapeRoundTrip ==
  lastOp = "escapeAndAppend" =>
    LET appended == SubSeq(payload, 2, Len(payload))
    IN  /\ payload[1] = "{"
        /\ appended = ClaimedEscape(text)
        /\ JsonUnescape(appended) = text
        /\ NoBareQuote(appended)

\* A quote, a backslash and a newline were escaped.
C14_Witness ==
  /\ lastOp = "escapeAndAppend"
  /\ text = <<Quote, Backslash, "\n">>
  /\ payload = <<"{", Backslash, Quote, Backslash, Backslash, Backslash, "n">>

(***************************************************************************)
(* C15.  beginObject(key) called below the ceiling appends a comma iff a   *)
(* field was already emitted at the current level, the quoted escaped key, *)
(* a colon and an opening brace directly after the colon, increases depth  *)
(* by 1, sets the new level's first-flag and clears the parent's.          *)
(* The code's beginField writes a quote between the colon and the brace    *)
(* (the stray quote of C1).                                                *)
(***************************************************************************)
C15_BeginObjectFragment ==
  [][\A k \in Keys :
       (depth < maxDepth /\ BeginObject(k)) =>
         /\ payload' = payload \o ScalarFragment(Self, k, <<"{">>)
         /\ depth' = depth + 1
         /\ first' = [first EXCEPT ![depth] = FALSE, ![depth + 1] = TRUE]]_vars

(***************************************************************************)
(* C16.  Device prefix immutability: from the commit until the next        *)
(* clear(), deviceEndPos_ keeps its value, the buffer is at least that     *)
(* long and its bytes [0, deviceEndPos_) stay what they were; nextSensor() *)
(* changes only the bytes from deviceEndPos_ on, depth and the root's      *)
(* first-flag.                                                             *)
(***************************************************************************)
C16_DevicePrefixImmutable ==
  [][(deviceSet /\ lastOp' # "clear") =>
       /\ deviceSet'
       /\ deviceEndPos' = deviceEndPos
       /\ Len(payload) >= deviceEndPos
       /\ Len(payload') >= deviceEndPos
       /\ SubSeq(payload', 1, deviceEndPos) = DevicePrefix
       /\ lastOp' = "nextSensor" =>
            /\ maxDepth' = maxDepth
            /\ \A d \in 1..kStaticMaxDepth : first'[d] = first[d]]_vars

\* nextSensor() has cut the buffer back to a committed device object.
C16_Witness ==
  /\ deviceSet
  /\ lastOp = "nextSensor"
  /\ depth = 0
  /\ Len(payload) = deviceEndPos
  /\ deviceEndPos > 10
  /\ SubSeq(payload, 1, 10) = <<"{", Quote>> \o DeviceKey \o <<Quote, ":">>
  /\ payload[deviceEndPos] = "}"

(***************************************************************************)
(* C17.  endObject() at depth 0 leaves the whole builder unchanged; at     *)
(* depth > 0 it appends exactly one closing brace, decreases depth by 1    *)
(* and changes nothing else; depth never goes below 0.                     *)
(***************************************************************************)
C17_EndObjectFrame ==
  [][lastOp' = "endObject" =>
       /\ depth' >= 0
       /\ IF depth = 0
          THEN UNCHANGED <<payload, depth, maxDepth, first, deviceSet, deviceEndPos>>
          ELSE /\ payload' = payload \o <<"}">>
               /\ depth' = depth - 1
               /\ UNCHANGED <<maxDepth, first, deviceSet, deviceEndPos>>]_vars

\* endObject() has closed the inner of two nested objects.
C17_Witness ==
  /\ lastOp = "endObject"
  /\ depth = 1
  /\ OpenObjects(payload) = 2
  /\ payload[Len(payload)] = "}"

(***************************************************************************)
(* C18.  Append-only buffer: every call other than clear() and             *)
(* nextSensor() leaves the buffer it found as a prefix of the buffer it    *)
(* leaves; only clear() and nextSensor() shorten the buffer; nextSensor()  *)
(* changes nothing while deviceSet_ is false.                              *)
(***************************************************************************)
IsPrefix(s, t) == Len(s) <= Len(t) /\ SubSeq(t, 1, Len(s)) = s

C18_AppendOnly ==
  [][/\ lastOp' \notin {"clear", "nextSensor"} => IsPrefix(payload, payload')
     /\ Len(payload') < Len(payload) => lastOp' \in {"clear", "nextSensor"}
     /\ (lastOp' = "nextSensor" /\ ~deviceSet) =>
          UNCHANGED <<payload, depth, maxDepth, first, deviceSet, deviceEndPos>>]_vars

\* nextSensor() was called with no device committed, on a buffer holding an
\* open object.
C18_Witness ==
  /\ lastOp = "nextSensor"
  /\ ~deviceSet
  /\ depth >= 1
  /\ NumFields(payload) >= 2

(***************************************************************************)
(* C19.  Flag-array bounds (checked under SpecNest): every index at which  *)
(* beginField reads or writes first_ (depth_) and at which beginObject     *)
(* writes it (depth_ + 1, below the ceiling) lies in 0..6, within the      *)
(* 7-element array.                                                        *)
(***************************************************************************)
C19_FlagIndexInBounds ==
  /\ DOMAIN first = 0..kStaticMaxDepth
  /\ depth \in DOMAIN first
  /\ depth < maxDepth => ((depth + 1) % 256) \in DOMAIN first

\* A field was written at depth 6 of a builder constructed with 7.
C19_Witness ==
  /\ reqDepth = 7
  /\ depth = 6
  /\ lastOp = "addLong"
  /\ ~first[6]

(***************************************************************************)
(* C20.  nextSensor idempotence: in the state a nextSensor() call leaves,  *)
(* a second nextSensor() call changes nothing.                             *)
(***************************************************************************)
C20_NextSensorIdempotent ==
  lastOp = "nextSensor" => nextSensor(Self) = Self

\* nextSensor() has discarded content appended after the commit of a prefix
\* that holds two fields.
C20_Witness ==
  /\ lastOp = "nextSensor"
  /\ deviceSet
  /\ Len(payload) = deviceEndPos
  /\ NumFields(payload) = 2

====
